---- MODULE Spec2Model ----
(***************************************************************************)
(* Branch-and-bound ingredient optimiser (src/src/lib.rs) and its BitSet   *)
(* (src/src/bitset.rs), modelled as state machines.                        *)
(*                                                                         *)
(* Spec        one invocation of BranchBound::search, the recursion kept   *)
(*             as an explicit stack of call frames.                        *)
(* FairSpec    Spec with the program taking steps until search returns.    *)
(* SpecBitSet  two BitSet values under every sequence of BitSet operations.*)
(* SpecBounds  the BoundFunction implementations of src/src/bounds.rs      *)
(*             applied to the context of a first search call.              *)
(* The variables of the other machines stay at their initial value.        *)
(***************************************************************************)
EXTENDS Integers, FiniteSets, Sequences, TLC

\* ------------------------------------------------------------------------
\* Bounds of the search model
\* ------------------------------------------------------------------------
MaxIngredient == 2
MaxRecipes == 4
MaxK == 2
MaxCallsBound == 7

Ingredients == 0..MaxIngredient
AllRecipes == (SUBSET Ingredients) \ {{}}

\* ------------------------------------------------------------------------
\* State of one BranchBound engine and of the recursion
\* ------------------------------------------------------------------------
VARIABLES
    calls,               \* BranchBound.calls (i32), the remaining budget
    max_calls,           \* the max_calls argument of BranchBound::new
    max_size,            \* BranchBound.max_size (usize), the ingredient budget k
    highest_score,       \* BranchBound.highest_score
    highest,             \* BranchBound.highest, the incumbent
    counter,             \* BranchBound.counter
    entries,             \* how many times search has been entered so far
    min_cover,           \* BranchBound.min_cover
    min_amortized_cost,  \* BranchBound.min_amortized_cost (scaled, see CostScale)
    initial,             \* BranchBound.initial
    stack,               \* call frames of search, innermost first
    result,              \* << >>, or << the set the outermost search call returned >>
    early,               \* "Early return!" has been printed
    panicked,            \* an unwrap failed or an unsigned subtraction underflowed
    last,                \* what the most recent step of search did, and on which frame
    set1, set2,          \* two BitSet values: their chunks, lowest chunk first
    context,             \* a BoundContext (bounds.rs)
    bound_out            \* the last BoundFunction::compute result, with its name

search_vars == << calls, max_calls, max_size, highest_score, highest, counter,
                 entries,
                 min_cover, min_amortized_cost, initial, stack, result, early,
                 panicked, last >>
bitset_vars == << set1, set2 >>
bound_vars == << context, bound_out >>
vars == << search_vars, bitset_vars, bound_vars >>

NoneValue == "None"
NoRecipe == {}

\* ------------------------------------------------------------------------
\* Arithmetic helpers
\* ------------------------------------------------------------------------
Min2(a, b) == IF a <= b THEN a ELSE b

SetMin(S) == CHOOSE x \in S : \A y \in S : x <= y

MaxOf(S) == CHOOSE x \in S : \A y \in S : y <= x
MinOf(S) == CHOOSE x \in S : \A y \in S : x <= y

RECURSIVE Fact(_)
Fact(n) == IF n <= 1 THEN 1 ELSE n * Fact(n - 1)

RECURSIVE SumOver(_, _)
\* sum of f[x] over the elements x of S
SumOver(f, S) ==
    IF S = {} THEN 0
    ELSE LET x == CHOOSE y \in S : TRUE IN f[x] + SumOver(f, S \ {x})

\* ------------------------------------------------------------------------
\* First-call preprocessing (lib.rs 71-110)
\* ------------------------------------------------------------------------
\* cardinality: for each ingredient, the number of cocktails that use it
cardinality(candidates) ==
    [i \in UNION candidates |-> Cardinality({c \in candidates : i \in c})]

\* 1/cardinality is kept exact by scaling every cost with a common multiple
\* of all possible cardinalities (1..|candidates|).
CostScale(candidates) == Fact(Cardinality(candidates))

\* min_amortized_cost[cocktail] = sum over its ingredients of 1/cardinality
amortized_cost_table(candidates) ==
    LET card == cardinality(candidates)
        inv  == [i \in DOMAIN card |-> CostScale(candidates) \div card[i]]
    IN [c \in candidates |-> SumOver(inv, c)]

\* min_cover[cocktail] = min over its ingredients of cardinality;
\* .min().unwrap() panics on a cocktail without ingredients
min_cover_table(candidates) ==
    LET card == cardinality(candidates)
    IN [c \in candidates |->
          IF c = {} THEN 0 ELSE SetMin({card[i] : i \in c})]

PreprocessPanics(candidates) == \E c \in candidates : c = {}

\* ------------------------------------------------------------------------
\* Bound functions of BranchBound (lib.rs 220-282)
\* ------------------------------------------------------------------------
total_bound(candidates, partial, partial_ingredients) == Cardinality(candidates)

n_unique_cocktails(candidates, mc) ==
    Cardinality({c \in candidates : c \in DOMAIN mc /\ mc[c] = 1})

\* max_size - partial_ingredients.len() is a usize subtraction: it panics when
\* overflow checks are on and wraps to a value above any count when they are
\* off, in which case min(n_unique, budget) is n_unique.
SingletonUnderflows(partial_ingredients, k) == k < Cardinality(partial_ingredients)

SingletonBoundNoSlack(candidates, partial_ingredients, k, mc) ==
    Cardinality(candidates) - n_unique_cocktails(candidates, mc)

singleton_bound(candidates, partial_ingredients, k, mc) ==
    LET u == n_unique_cocktails(candidates, mc)
        limited == IF SingletonUnderflows(partial_ingredients, k)
                   THEN u
                   ELSE Min2(u, k - Cardinality(partial_ingredients))
    IN Cardinality(candidates) - u + limited

RECURSIVE DescendingFrom(_, _, _)
\* the increases of the candidates in S that are at most v, largest first
DescendingFrom(incr, S, v) ==
    IF v < 0 THEN << >>
    ELSE [i \in 1..Cardinality({c \in S : incr[c] = v}) |-> v]
            \o DescendingFrom(incr, S, v - 1)

\* ingredient_increases sorted with sort_unstable_by(|a, b| b.cmp(a))
SortDescending(incr, S) ==
    DescendingFrom(incr, S, MaxOf({incr[c] : c \in S} \cup {0}))

RECURSIVE SortAscending(_, _)
SortAscending(incr, S) ==
    IF S = {} THEN << >>
    ELSE LET m == CHOOSE x \in S : \A y \in S : incr[x] <= incr[y]
         IN << incr[m] >> \o SortAscending(incr, S \ {m})

RECURSIVE GreedyRemove(_, _, _, _)
\* the for loop of concentration_bound over the sorted increases
GreedyRemove(increases, i, excess, upper) ==
    IF i > Len(increases) \/ excess <= 0 THEN upper
    ELSE GreedyRemove(increases, i + 1, excess - increases[i], upper - 1)

ConcentrationAscending(candidates, partial_ingredients, k) ==
    LET excess == Cardinality((UNION candidates) \cup partial_ingredients) - k
        incr   == [c \in candidates |-> Cardinality(c \ partial_ingredients)]
    IN GreedyRemove(SortAscending(incr, candidates), 1, excess,
                    Cardinality(candidates))

concentration_bound(candidates, partial_ingredients, k) ==
    LET excess == Cardinality((UNION candidates) \cup partial_ingredients) - k
        incr   == [c \in candidates |-> Cardinality(c \ partial_ingredients)]
    IN GreedyRemove(SortDescending(incr, candidates), 1, excess,
                    Cardinality(candidates))

\* ------------------------------------------------------------------------
\* keep_exploring (lib.rs 199-218): "panic", "prune" or "explore"
\* ------------------------------------------------------------------------
ThresholdUnderflows(score, partial) == score < Cardinality(partial)

KeepExploringSingletonFirst(candidates, partial, partial_ingredients, score, k, mc) ==
    LET threshold == score - Cardinality(partial) IN
    IF ThresholdUnderflows(score, partial) THEN "panic"
    ELSE IF (\E c \in candidates : c \notin DOMAIN mc)
            \/ SingletonUnderflows(partial_ingredients, k) THEN "panic"
    ELSE IF singleton_bound(candidates, partial_ingredients, k, mc) <= threshold
         THEN "prune"
    ELSE IF total_bound(candidates, partial, partial_ingredients) <= threshold
         THEN "prune"
    ELSE IF concentration_bound(candidates, partial_ingredients, k) <= threshold
         THEN "prune"
    ELSE "explore"

KeepExploringStrict(candidates, partial, partial_ingredients, score, k, mc) ==
    LET threshold == score - Cardinality(partial) IN
    IF ThresholdUnderflows(score, partial) THEN "panic"
    ELSE IF total_bound(candidates, partial, partial_ingredients) < threshold
         THEN "prune"
    ELSE IF (\E c \in candidates : c \notin DOMAIN mc)
            \/ SingletonUnderflows(partial_ingredients, k) THEN "panic"
    ELSE IF singleton_bound(candidates, partial_ingredients, k, mc) < threshold
         THEN "prune"
    ELSE IF concentration_bound(candidates, partial_ingredients, k) < threshold
         THEN "prune"
    ELSE "explore"

keep_exploring(candidates, partial, partial_ingredients, score, k, mc) ==
    LET threshold == score - Cardinality(partial) IN
    IF ThresholdUnderflows(score, partial) THEN "panic"
    ELSE IF total_bound(candidates, partial, partial_ingredients) <= threshold
         THEN "prune"
    ELSE IF (\E c \in candidates : c \notin DOMAIN mc)
            \/ SingletonUnderflows(partial_ingredients, k) THEN "panic"
    ELSE IF singleton_bound(candidates, partial_ingredients, k, mc) <= threshold
         THEN "prune"
    ELSE IF concentration_bound(candidates, partial_ingredients, k) <= threshold
         THEN "prune"
    ELSE "explore"

\* ------------------------------------------------------------------------
\* Incumbent update (lib.rs 118-123)
\* ------------------------------------------------------------------------
ReplacesIncumbentAlways(partial, score) == TRUE

ReplacesIncumbentNever(partial, score) == FALSE

ReplacesIncumbent(partial, score) == Cardinality(partial) > score

\* ------------------------------------------------------------------------
\* Branching (lib.rs 136-192)
\* ------------------------------------------------------------------------
\* candidates.iter().min_by(cmp_f64 of min_amortized_cost): a minimum in the
\* iteration order of the hash set, which is any of the minima
PivotChoices(candidates, cost) ==
    {c \in candidates : c \in DOMAIN cost
        /\ \A d \in candidates : d \in DOMAIN cost => cost[c] <= cost[d]}

PivotPanics(candidates, cost) ==
    candidates = {} \/ \E c \in candidates : c \notin DOMAIN cost

CoveredWhenEqual(candidates, new_partial_ingredients) ==
    {c \in candidates : c = new_partial_ingredients}

covered_candidates(candidates, new_partial_ingredients) ==
    {c \in candidates : c \subseteq new_partial_ingredients}

forbidden_cover(forbidden, extended_ingredients) ==
    \E f \in forbidden : f \subseteq extended_ingredients

PermittedNoSizeCheck(candidates, covered, new_partial_ingredients, forbidden, k) ==
    {c \in candidates \ covered :
        ~forbidden_cover(forbidden, c \cup new_partial_ingredients)}

permitted_candidates(candidates, covered, new_partial_ingredients, forbidden, k) ==
    {c \in candidates \ covered :
        /\ Cardinality(c \cup new_partial_ingredients) <= k
        /\ ~forbidden_cover(forbidden, c \cup new_partial_ingredients)}

RemainingIsWholePool(candidates, best, partial_ingredients) == candidates

RemainingOnlyPivotRemoved(candidates, best, partial_ingredients) ==
    candidates \ {best}

remaining(candidates, best, partial_ingredients) ==
    {c \in candidates \ {best} : ~(best \subseteq (c \cup partial_ingredients))}

NewForbiddenWithoutPivot(forbidden, best) == forbidden

\* forbidden.clone() with the pivot inserted (lib.rs 189-190)
new_forbidden(forbidden, best) == forbidden \cup {best}

\* ------------------------------------------------------------------------
\* Frames
\* ------------------------------------------------------------------------
Frame(C, P, F, pc, best) == [C |-> C, P |-> P, F |-> F, pc |-> pc, best |-> best]

Top == Head(stack)

Footprint(P) == UNION P

Returned(rest) == IF rest = << >> THEN << highest >> ELSE result

\* the budget check `self.calls <= 0` (lib.rs 112)
BudgetExhaustedBelowZero(c) == c < 0

BudgetExhausted(c) == c <= 0

\* budget bookkeeping of an entry that passes the budget check (lib.rs 116-117)
CallsAfterEntryKept(c) == c

CallsAfterEntry(c) == c - 1

\* ------------------------------------------------------------------------
\* Initial states: BranchBound::new(max_calls, max_size), then
\* search(candidates, {}, None) about to be entered
\* ------------------------------------------------------------------------
BitSetIdle == set1 = << >> /\ set2 = << >>

BoundsIdle == context = << >> /\ bound_out = << >>

Init ==
    /\ BitSetIdle
    /\ BoundsIdle
    /\ max_calls \in 0..MaxCallsBound
    /\ calls = max_calls
    /\ max_size \in 1..MaxK
    /\ highest_score = 0
    /\ highest = {}
    /\ counter = 0
    /\ entries = 0
    /\ min_cover = << >>
    /\ min_amortized_cost = << >>
    /\ initial = TRUE
    /\ \E C0 \in SUBSET AllRecipes :
          /\ Cardinality(C0) <= MaxRecipes
          /\ stack = << Frame(C0, {}, NoneValue, "entry", NoRecipe) >>
    /\ result = << >>
    /\ early = FALSE
    /\ panicked = FALSE
    /\ last = [op |-> "new", C |-> {}, P |-> {}, F |-> {}]

\* tables and forbidden list as they stand after the `if self.initial` block
TablesMC(f) == IF initial THEN min_cover_table(f.C) ELSE min_cover
TablesCost(f) == IF initial THEN amortized_cost_table(f.C) ELSE min_amortized_cost
ForbiddenOf(f) == IF initial THEN {} ELSE f.F

Preprocessed(f) ==
    /\ min_cover' = TablesMC(f)
    /\ min_amortized_cost' = TablesCost(f)
    /\ initial' = FALSE

\* ------------------------------------------------------------------------
\* search, entry that fails the budget check (lib.rs 71-115)
\* ------------------------------------------------------------------------
EarlyReturn ==
    /\ stack # << >>
    /\ Top.pc = "entry"
    /\ ~(initial /\ PreprocessPanics(Top.C))
    /\ BudgetExhausted(calls)
    /\ Preprocessed(Top)
    /\ early' = TRUE
    /\ entries' = entries + 1
    /\ stack' = Tail(stack)
    /\ result' = Returned(Tail(stack))
    /\ last' = [op |-> "early", C |-> Top.C, P |-> Top.P, F |-> ForbiddenOf(Top)]
    /\ UNCHANGED << calls, max_calls, max_size, highest_score, highest, counter,
                    panicked, bitset_vars, bound_vars >>

\* ------------------------------------------------------------------------
\* search, entry that passes the budget check (lib.rs 71-181, 196):
\* incumbent update, pruning, and either return or the left recursive call
\* ------------------------------------------------------------------------
Entered(f) ==
    /\ f.pc = "entry"
    /\ ~(initial /\ PreprocessPanics(f.C))
    /\ ~BudgetExhausted(calls)
    /\ Preprocessed(f)
    /\ calls' = CallsAfterEntry(calls)
    /\ counter' = counter + 1
    /\ entries' = entries + 1
    /\ IF ReplacesIncumbent(f.P, highest_score)
       THEN highest' = f.P /\ highest_score' = Cardinality(f.P)
       ELSE UNCHANGED << highest, highest_score >>
    /\ UNCHANGED << max_calls, max_size, early, bitset_vars, bound_vars >>

Verdict(f) ==
    keep_exploring(f.C, f.P, Footprint(f.P), highest_score', max_size, TablesMC(f))

\* a failed unwrap or an underflowing subtraction aborts the program
Abort(f) ==
    /\ panicked' = TRUE
    /\ stack' = << >>
    /\ UNCHANGED result
    /\ last' = [op |-> "panic", C |-> f.C, P |-> f.P, F |-> ForbiddenOf(f)]

\* keep_exploring is false: the frame returns self.highest.clone()
Prune ==
    /\ stack # << >>
    /\ Entered(Top)
    /\ Verdict(Top) # "explore"
    /\ IF Verdict(Top) = "panic"
       THEN Abort(Top)
       ELSE /\ stack' = Tail(stack)
            /\ result' = IF Tail(stack) = << >> THEN << highest' >> ELSE result
            /\ panicked' = panicked
            /\ last' = [op |-> "prune", C |-> Top.C, P |-> Top.P,
                        F |-> ForbiddenOf(Top)]

\* keep_exploring is true: pivot selection and the left recursive call
Branch ==
    /\ stack # << >>
    /\ Entered(Top)
    /\ Verdict(Top) = "explore"
    /\ IF PivotPanics(Top.C, TablesCost(Top))
       THEN Abort(Top)
       ELSE /\ \E best \in PivotChoices(Top.C, TablesCost(Top)) :
                 LET f == Top
                     new_partial_ingredients == Footprint(f.P) \cup best
                     covered == covered_candidates(f.C, new_partial_ingredients)
                     permitted == permitted_candidates(f.C, covered,
                                      new_partial_ingredients, ForbiddenOf(f),
                                      max_size)
                 IN stack' = << Frame(permitted, f.P \cup covered, ForbiddenOf(f),
                                      "entry", NoRecipe),
                                Frame(f.C, f.P, ForbiddenOf(f), "left", best) >>
                              \o Tail(stack)
            /\ UNCHANGED << result, panicked >>
            /\ last' = [op |-> "branch", C |-> Top.C, P |-> Top.P,
                        F |-> ForbiddenOf(Top)]

\* ------------------------------------------------------------------------
\* search after the left recursion returned (lib.rs 183-192)
\* ------------------------------------------------------------------------
RightBranch ==
    /\ stack # << >>
    /\ Top.pc = "left"
    /\ LET f == Top
           rem == remaining(f.C, f.best, Footprint(f.P))
       IN /\ stack' = << Frame(rem, f.P, new_forbidden(f.F, f.best), "entry",
                               NoRecipe),
                         Frame(f.C, f.P, f.F, "right", f.best) >>
                       \o Tail(stack)
          /\ last' = [op |-> "right", C |-> f.C, P |-> f.P, F |-> f.F]
    /\ UNCHANGED << calls, max_calls, max_size, highest_score, highest, counter,
                    entries, min_cover, min_amortized_cost, initial, result,
                    early, panicked, bitset_vars, bound_vars >>

\* ------------------------------------------------------------------------
\* search returns self.highest.clone() after both recursions (lib.rs 196)
\* ------------------------------------------------------------------------
Return ==
    /\ stack # << >>
    /\ Top.pc = "right"
    /\ stack' = Tail(stack)
    /\ result' = Returned(Tail(stack))
    /\ last' = [op |-> "return", C |-> Top.C, P |-> Top.P, F |-> Top.F]
    /\ UNCHANGED << calls, max_calls, max_size, highest_score, highest, counter,
                    entries, min_cover, min_amortized_cost, initial, early,
                    panicked, bitset_vars, bound_vars >>

Next == EarlyReturn \/ Prune \/ Branch \/ RightBranch \/ Return

Spec == Init /\ [][Next]_vars

\* the program keeps running until search has returned or panicked
FairSpec == Spec /\ WF_vars(Next)

\* ========================================================================
\* Properties of the search (checked under Spec)
\* ========================================================================
\* the recipe set the outermost call was given (known once preprocessed)
RootCandidates == IF initial THEN Head(stack).C ELSE DOMAIN min_cover

Finished == stack = << >> /\ ~panicked

\* best score of any ingredient set within the budget, by enumeration
BruteForceOptimum(C0, k) ==
    LET scores == {Cardinality({r \in C0 : r \subseteq S}) :
                      S \in {T \in SUBSET Ingredients : Cardinality(T) <= k}}
    IN CHOOSE m \in scores : \A n \in scores : n <= m

\* C1: every partial solution held by a frame, the incumbent and the returned
\* set have a footprint of at most k ingredients, for every recipe set of
\* non-empty recipes (also recipes larger than k), k >= 1 and max_calls.
C1_FootprintWithinBudget ==
    /\ \A i \in 1..Len(stack) : Cardinality(Footprint(stack[i].P)) <= max_size
    /\ Cardinality(Footprint(highest)) <= max_size
    /\ result # << >> => Cardinality(Footprint(result[1])) <= max_size

\* C2: when the budget is never exhausted, the size of the returned incumbent
\* is the brute-force optimum over all ingredient subsets of size <= k.
C2_OptimalWhenBudgetSuffices ==
    (Finished /\ ~early) =>
        Cardinality(result[1]) = BruteForceOptimum(RootCandidates, max_size)

\* C2, restricted to recipe sets in which every recipe fits the budget: the
\* case in which the search is exact.
OptimalWhenRecipesFit ==
    (Finished /\ ~early /\ \A r \in RootCandidates : Cardinality(r) <= max_size)
        => Cardinality(result[1]) = BruteForceOptimum(RootCandidates, max_size)

\* C4: counter <= max_calls and counter + calls = max_calls in every state.
C4_BudgetSafety ==
    /\ counter <= max_calls
    /\ counter + calls = max_calls

\* C4 witness: the whole budget of at least three calls was consumed and a
\* further entry was refused.
C4_Witness == early /\ max_calls >= 3 /\ counter = max_calls

\* C5: highest_score never decreases, always equals the size of the stored
\* incumbent, and the incumbent is only replaced by a strictly larger set.
C5_IncumbentMonotone ==
    /\ [](highest_score = Cardinality(highest))
    /\ [][/\ highest_score' >= highest_score
          /\ highest' # highest =>
                /\ Cardinality(highest') > Cardinality(highest)
                /\ highest' = Top.P]_vars

\* C5 witness: an entry with a partial solution smaller than the incumbent
\* of size two has been processed, and the incumbent kept.
C5_Witness ==
    /\ last.op \in {"prune", "branch"}
    /\ highest_score >= 2
    /\ Cardinality(last.P) < highest_score

\* C6: once calls is 0, every entry returns at once (the frame is popped, no
\* frame pushed), counter, highest_score and highest never change again, and
\* the outermost call returns the incumbent as it was.
C6_ExhaustionFreezesIncumbent ==
    /\ [](Finished => result = << highest >>)
    /\ [][calls <= 0 =>
            /\ calls' = calls
            /\ counter' = counter
            /\ highest' = highest
            /\ highest_score' = highest_score
            /\ (stack # << >> /\ Top.pc = "entry") => stack' = Tail(stack)]_vars

\* C6 witness: an entry was refused by the budget check although its partial
\* solution was larger than the incumbent.
C6_Witness ==
    /\ last.op = "early"
    /\ calls = 0
    /\ max_calls >= 1
    /\ Cardinality(last.P) > highest_score

\* C7: no unwrap fails and no unsigned subtraction underflows on valid input
\* (non-empty recipes, k >= 1, empty initial partial solution).
C7_NeverPanics == ~panicked

\* C7 witness: a frame whose footprint exceeds k was entered and left without
\* the slack k - |I(P)| being evaluated.
C7_Witness ==
    /\ last.op = "prune"
    /\ Cardinality(Footprint(last.P)) > max_size
    /\ ~panicked

\* C8: an entry with an empty candidate pool (budget permitting) returns
\* without selecting a pivot or recursing, and search on an empty recipe set
\* returns the empty incumbent with score 0; with the positive max_calls the
\* configuration requires, after exactly one counted entry.
C8_EmptyPoolPruned ==
    /\ []((Finished /\ RootCandidates = {}) =>
             /\ result = << {} >>
             /\ highest_score = 0
             /\ max_calls >= 1 => counter = 1)
    /\ [][(stack # << >> /\ Top.pc = "entry" /\ Top.C = {} /\ calls > 0) =>
             /\ stack' = Tail(stack)
             /\ ~panicked'
             /\ last'.op = "prune"]_vars

\* C8 witness: search on the empty recipe set has returned after one entry.
C8_Witness ==
    /\ Finished
    /\ RootCandidates = {}
    /\ last.op = "prune"
    /\ counter = 1
    /\ result = << {} >>

RecipesFit == \A r \in RootCandidates : Cardinality(r) <= max_size

AtEntry(f) == f.pc = "entry"

WithinBudget(f) ==
    \A r \in f.C : Cardinality(r \cup Footprint(f.P)) <= max_size

NotBlocked(f) ==
    \A r \in f.C : ~forbidden_cover(ForbiddenOf(f), r \cup Footprint(f.P))

\* C14: at every recursive entry of search, every recipe r of the candidate
\* pool satisfies |r union I(P)| <= k and is not blocked by F, at the root
\* call and along every chain of left and right branches.
C14_CandidatesAdmissible ==
    \A i \in 1..Len(stack) :
        AtEntry(stack[i]) => WithinBudget(stack[i]) /\ NotBlocked(stack[i])

\* what remains of C14: no candidate is ever blocked by F, and every
\* candidate fits the budget when every input recipe does
CandidatesAdmissibleWhenRecipesFit ==
    \A i \in 1..Len(stack) :
        AtEntry(stack[i]) =>
            /\ NotBlocked(stack[i])
            /\ RecipesFit => WithinBudget(stack[i])

\* an entry below the root whose pool holds a recipe that breaks the budget
OversizeCandidateBelowRoot ==
    /\ Len(stack) >= 2
    /\ AtEntry(Top)
    /\ ~WithinBudget(Top)

\* C15: at every recursive entry no recipe of the forbidden list F is a
\* subset of the footprint I(P): once a right branch has excluded a pivot,
\* no partial solution of that right subtree, and no incumbent recorded
\* there, has a footprint that covers the pivot.
C15_ForbiddenNeverCovered ==
    /\ \A i \in 1..Len(stack) :
          ~forbidden_cover(ForbiddenOf(stack[i]), Footprint(stack[i].P))
    /\ (last.op \in {"prune", "branch"} /\ highest = last.P) =>
          ~forbidden_cover(last.F, Footprint(highest))

\* C15 witness: inside a right subtree (F holds an excluded pivot) a left
\* branch has committed recipes that share an ingredient with the excluded
\* pivot, and the frame it opened has been entered.
C15_Witness ==
    /\ last.op \in {"prune", "branch"}
    /\ last.F # {}
    /\ last.P # {}
    /\ \E f \in last.F : f \cap Footprint(last.P) # {}

\* ------------------------------------------------------------------------
\* keep_exploring with the bound_functions array in another order
\* ------------------------------------------------------------------------
BoundNames == {"total_bound", "singleton_bound", "concentration_bound"}

BoundOrders ==
    {order \in [1..3 -> BoundNames] : \A i, j \in 1..3 : i # j => order[i] # order[j]}

SourceOrder == << "total_bound", "singleton_bound", "concentration_bound" >>

\* func(self, candidates, partial, partial_ingredients) does not return
BoundPanics(name, candidates, partial_ingredients, k, mc) ==
    /\ name = "singleton_bound"
    /\ \/ \E c \in candidates : c \notin DOMAIN mc
       \/ SingletonUnderflows(partial_ingredients, k)

BoundValue(name, candidates, partial, partial_ingredients, k, mc) ==
    IF name = "total_bound"
    THEN total_bound(candidates, partial, partial_ingredients)
    ELSE IF name = "singleton_bound"
    THEN singleton_bound(candidates, partial_ingredients, k, mc)
    ELSE concentration_bound(candidates, partial_ingredients, k)

RECURSIVE KeepExploringFrom(_, _, _, _, _, _, _, _)
\* the for loop of keep_exploring from position i of the array
KeepExploringFrom(order, i, candidates, partial, partial_ingredients, threshold, k, mc) ==
    IF i > Len(order) THEN "explore"
    ELSE IF BoundPanics(order[i], candidates, partial_ingredients, k, mc)
    THEN "panic"
    ELSE IF BoundValue(order[i], candidates, partial, partial_ingredients, k, mc)
              <= threshold
    THEN "prune"
    ELSE KeepExploringFrom(order, i + 1, candidates, partial,
                           partial_ingredients, threshold, k, mc)

KeepExploringInOrder(order, candidates, partial, partial_ingredients, score, k, mc) ==
    IF ThresholdUnderflows(score, partial) THEN "panic"
    ELSE KeepExploringFrom(order, 1, candidates, partial, partial_ingredients,
                           score - Cardinality(partial), k, mc)

\* a frame that is about to be entered with budget left
AboutToEnter ==
    /\ stack # << >>
    /\ AtEntry(Top)
    /\ ~BudgetExhausted(calls)
    /\ ~(initial /\ PreprocessPanics(Top.C))

\* highest_score after the incumbent update of the frame
ScoreAfterUpdate(f) ==
    IF ReplacesIncumbent(f.P, highest_score) THEN Cardinality(f.P)
    ELSE highest_score

VerdictInOrder(order, f) ==
    KeepExploringInOrder(order, f.C, f.P, Footprint(f.P), ScoreAfterUpdate(f),
                         max_size, TablesMC(f))

EveryBoundAbove(f) ==
    \A name \in BoundNames :
        BoundValue(name, f.C, f.P, Footprint(f.P), max_size, TablesMC(f))
            > ScoreAfterUpdate(f) - Cardinality(f.P)

OrderIndependent(f) ==
    /\ VerdictInOrder(SourceOrder, f) =
          keep_exploring(f.C, f.P, Footprint(f.P), ScoreAfterUpdate(f),
                         max_size, TablesMC(f))
    /\ (VerdictInOrder(SourceOrder, f) = "explore") <=> EveryBoundAbove(f)
    /\ \A order \in BoundOrders :
          VerdictInOrder(order, f) = VerdictInOrder(SourceOrder, f)

\* C16: a frame proceeds to branching exactly when every bound returns a
\* value strictly greater than bestScore - |P| (bestScore after the
\* incumbent update of the frame), and the decision is the same for every
\* permutation of the bound list.
C16_BoundOrderIrrelevant == AboutToEnter => OrderIndependent(Top)

\* what remains of C16: the decision is order-independent in every frame
\* whose footprint is within the budget, hence in every frame when every
\* input recipe fits the budget
OrderIrrelevantWithinBudget ==
    /\ (AboutToEnter /\ ~SingletonUnderflows(Footprint(Top.P), max_size))
          => OrderIndependent(Top)
    /\ (AboutToEnter /\ RecipesFit)
          => ~SingletonUnderflows(Footprint(Top.P), max_size)

\* the frame directly above a frame that waits in its left recursion was
\* given F without the pivot; the one above a frame that waits in its right
\* recursion was given the frame's own P and F plus the pivot
ChildrenAsCalled ==
    \A i \in 2..Len(stack) :
        LET child == stack[i - 1]
            parent == stack[i]
        IN /\ parent.pc \in {"left", "right"}
           /\ parent.pc = "left" =>
                 /\ ForbiddenOf(child) = parent.F
                 /\ parent.best \notin ForbiddenOf(child)
                 /\ parent.P \subseteq child.P
           /\ parent.pc = "right" =>
                 /\ child.P = parent.P
                 /\ child.F = parent.F \cup {parent.best}
                 /\ child.F # parent.F

\* a step leaves every frame below the innermost one as it is, and leaves
\* C, P and F of the innermost one as they are when it makes a call
CallersKept ==
    \/ stack' = Tail(stack)
    \/ panicked' /\ stack' = << >>
    \/ /\ Len(stack') = Len(stack) + 1
       /\ Tail(Tail(stack')) = Tail(stack)
       /\ stack'[2].C = Top.C
       /\ stack'[2].P = Top.P
       /\ stack'[2].F = ForbiddenOf(Top)
       /\ stack'[2].best = IF Top.pc = "left" THEN Top.best ELSE stack'[2].best
       /\ AtEntry(stack'[1])

\* the right recursion of a frame is entered only when the frame is the
\* innermost one again, that is after every entry of its left subtree
RightAfterLeft ==
    (Len(stack') > Len(stack) /\ stack'[2].pc = "right") =>
        /\ Top.pc = "left"
        /\ last.op \in {"early", "prune", "return"}

\* C18: for every frame that branches, every entry of the left subtree
\* happens before any entry of the right subtree; the right branch is
\* entered with the frame's own P and with F plus the pivot, the left
\* subtree sees F without the pivot, and C, P and F of the frame are not
\* changed by the left recursion.
C18_LeftBeforeRight ==
    /\ []ChildrenAsCalled
    /\ [][CallersKept /\ RightAfterLeft]_vars

\* C18 witness: a right branch has been entered, below a frame that is
\* itself inside a left subtree, after that frame's own left subtree (at
\* least one entry) had returned.
C18_Witness ==
    /\ Len(stack) >= 3
    /\ AtEntry(Top)
    /\ stack[2].pc = "right"
    /\ stack[3].pc = "left"
    /\ last.op = "right"
    /\ counter >= 3

\* the input recipes that can be made from the ingredients of P
MakeableFrom(P) == {r \in RootCandidates : r \subseteq Footprint(P)}

\* C19: in a search started with an empty partial solution, at every
\* recursive entry P is disjoint from C and is exactly the set of input
\* recipes covered by its own footprint; hence the size of the incumbent,
\* and of the returned set, is the number of input recipes makeable from
\* its ingredients, also when the budget is exhausted.
C19_PartialIsCoveredSet ==
    /\ \A i \in 1..Len(stack) :
          /\ stack[i].P \cap stack[i].C = {}
          /\ stack[i].P = MakeableFrom(stack[i].P)
    /\ stack # << >> =>
          /\ highest = MakeableFrom(highest)
          /\ highest_score = Cardinality(highest)
    /\ (result # << >> /\ ~initial) =>
          Cardinality(result[1]) = Cardinality(MakeableFrom(result[1]))

\* C19 witness: the search has returned after running out of budget, and
\* the returned incumbent holds more recipes than the pivots that were
\* committed for it can number (its footprint covers a third recipe that
\* fits into the union of two others).
C19_Witness ==
    /\ Finished
    /\ early
    /\ Cardinality(result[1]) = 3
    /\ Cardinality(Footprint(result[1])) = 2

RECURSIVE Pow2(_)
Pow2(n) == IF n = 0 THEN 1 ELSE 2 * Pow2(n - 1)

\* a step that makes a recursive call hands over a pool that is a strict
\* subset of the pool of the calling frame
CalleePoolShrinks ==
    Len(stack') > Len(stack) =>
        /\ stack'[1].C \subseteq stack'[2].C
        /\ stack'[1].C # stack'[2].C
        /\ stack'[2].best \in stack'[2].C
        /\ stack'[2].best \notin stack'[1].C

\* C20: every recursive call receives a strict subset of the pool of the
\* frame that makes it (without the pivot), the search is entered at most
\* 2^(|C0|+1) - 1 times, and it terminates, also when max_calls is larger
\* than the whole search tree.
C20_Terminates ==
    /\ [][CalleePoolShrinks]_vars
    /\ [](entries <= Pow2(Cardinality(RootCandidates) + 1) - 1)
    /\ <>(stack = << >>)

\* C20 witness: the search has returned with budget to spare after a tree
\* of at least five entries, none of them cut short.
C20_Witness ==
    /\ Finished
    /\ ~early
    /\ calls > 0
    /\ entries >= 5
    /\ entries = counter

\* ========================================================================
\* BitSet (src/src/bitset.rs)
\* ========================================================================
\* A u64 chunk is kept as the set of its one-bits (bit i has weight 2^i); a
\* BitSet is its chunks vector, lowest chunk first.
BITS_PER_CHUNK == 64

\* Bounds of the BitSet model: elements are the lowest and the highest bit
\* of chunks 0 and 1 and the lowest bit of chunks 2..MaxChunkIndex;
\* iterators yield at most MaxIterLen elements.
MaxChunkIndex == 2
MaxIterLen == 2

SampleBits == {0, BITS_PER_CHUNK - 1}
Elements ==
    {c * BITS_PER_CHUNK + b : c \in 0..1, b \in SampleBits}
        \cup {c * BITS_PER_CHUNK : c \in 2..MaxChunkIndex}

ZeroChunk == {}
OneShl(bit_index) == {bit_index}

\* u64::cmp: decided by the highest bit in which the two words differ
ChunkCmp(x, y) ==
    IF x = y THEN "Equal"
    ELSE IF MaxOf((x \ y) \cup (y \ x)) \in y THEN "Less" ELSE "Greater"

\* SmallVec::resize(len, 0)
resize(chunks, n) ==
    IF n <= Len(chunks) THEN SubSeq(chunks, 1, n)
    ELSE chunks \o [i \in 1..(n - Len(chunks)) |-> ZeroChunk]

\* chunks.get(i).copied().unwrap_or(0), i counted from 0
get_or_zero(chunks, i) == IF i < Len(chunks) THEN chunks[i + 1] ELSE ZeroChunk

new == << >>

ensure_capacity(chunks, element) ==
    LET chunk_index == element \div BITS_PER_CHUNK
    IN IF chunk_index >= Len(chunks) THEN resize(chunks, chunk_index + 1)
       ELSE chunks

insert(chunks, element) ==
    LET grown == ensure_capacity(chunks, element)
        chunk_index == element \div BITS_PER_CHUNK
        bit_index == element % BITS_PER_CHUNK
    IN [grown EXCEPT ![chunk_index + 1] = @ \cup OneShl(bit_index)]

singleton(element) == insert(new, element)

RECURSIVE InsertAll(_, _)
InsertAll(chunks, elements) ==
    IF elements = << >> THEN chunks
    ELSE InsertAll(insert(chunks, Head(elements)), Tail(elements))

bitset_from_iter(elements) == InsertAll(new, elements)

contains(chunks, element) ==
    LET chunk_index == element \div BITS_PER_CHUNK
    IN IF chunk_index >= Len(chunks) THEN FALSE
       ELSE (element % BITS_PER_CHUNK) \in chunks[chunk_index + 1]

RECURSIVE len(_)
len(chunks) ==
    IF chunks = << >> THEN 0 ELSE Cardinality(Head(chunks)) + len(Tail(chunks))

\* while chunks.last() == Some(&0) { chunks.pop(); }
RECURSIVE PopTrailingZeros(_)
PopTrailingZeros(chunks) ==
    IF chunks # << >> /\ chunks[Len(chunks)] = ZeroChunk
    THEN PopTrailingZeros(SubSeq(chunks, 1, Len(chunks) - 1))
    ELSE chunks

MaxLen(a, b) == IF Len(a) >= Len(b) THEN Len(a) ELSE Len(b)
MinLen(a, b) == IF Len(a) <= Len(b) THEN Len(a) ELSE Len(b)

union(a, b) ==
    PopTrailingZeros([i \in 1..MaxLen(a, b) |->
                         get_or_zero(a, i - 1) \cup get_or_zero(b, i - 1)])

intersection(a, b) ==
    PopTrailingZeros([i \in 1..MinLen(a, b) |-> a[i] \cap b[i]])

DifferenceUntrimmed(a, b) ==
    [i \in 1..Len(a) |-> a[i] \ get_or_zero(b, i - 1)]

difference(a, b) ==
    PopTrailingZeros([i \in 1..Len(a) |-> a[i] \ get_or_zero(b, i - 1)])

is_subset(a, b) ==
    /\ \A i \in (Len(b) + 1)..Len(a) : a[i] = ZeroChunk
    /\ \A i \in 1..MinLen(a, b) : a[i] \ b[i] = ZeroChunk

union_assign(a, b) ==
    LET grown == IF Len(b) > Len(a) THEN resize(a, Len(b)) ELSE a
    IN PopTrailingZeros([i \in 1..Len(grown) |->
                            IF i <= Len(b) THEN grown[i] \cup b[i] ELSE grown[i]])

IntersectionAssignNoTruncate(a, b) ==
    PopTrailingZeros([i \in 1..Len(a) |->
                         IF i <= MinLen(a, b) THEN a[i] \cap b[i] ELSE a[i]])

intersection_assign(a, b) ==
    PopTrailingZeros(SubSeq([i \in 1..Len(a) |->
                                IF i <= MinLen(a, b) THEN a[i] \cap b[i] ELSE a[i]],
                            1, MinLen(a, b)))

difference_assign(a, b) ==
    PopTrailingZeros([i \in 1..Len(a) |->
                         IF i <= MinLen(a, b) THEN a[i] \ b[i] ELSE a[i]])

\* impl Ord: the chunks are compared from index 0 upwards, a missing chunk as 0
RECURSIVE CmpFrom(_, _, _)
CmpFrom(a, b, i) ==
    IF i >= MaxLen(a, b) THEN "Equal"
    ELSE LET c == ChunkCmp(get_or_zero(a, i), get_or_zero(b, i))
         IN IF c = "Equal" THEN CmpFrom(a, b, i + 1) ELSE c

RECURSIVE CmpFromTop(_, _, _)
CmpFromTop(a, b, i) ==
    IF i < 0 THEN "Equal"
    ELSE LET c == ChunkCmp(get_or_zero(a, i), get_or_zero(b, i))
         IN IF c = "Equal" THEN CmpFromTop(a, b, i - 1) ELSE c

CmpMostSignificantFirst(a, b) == CmpFromTop(a, b, MaxLen(a, b) - 1)

RECURSIVE CmpZipped(_, _, _)
CmpZipped(a, b, i) ==
    IF i >= MinLen(a, b) THEN "Equal"
    ELSE LET c == ChunkCmp(a[i + 1], b[i + 1])
         IN IF c = "Equal" THEN CmpZipped(a, b, i + 1) ELSE c

CmpOverlapOnly(a, b) == CmpZipped(a, b, 0)

cmp(a, b) == CmpFrom(a, b, 0)

\* BitSetIter::next called until it returns None, from the iterator state
\* (chunk_index, current_chunk): the elements yielded, in order
RECURSIVE IterFrom(_, _, _)
IterFrom(chunks, chunk_index, current_chunk) ==
    IF current_chunk # ZeroChunk
    THEN LET bit_index == MinOf(current_chunk)   \* trailing_zeros
         IN << chunk_index * BITS_PER_CHUNK + bit_index >>
               \o IterFrom(chunks, chunk_index, current_chunk \ OneShl(bit_index))
    ELSE IF chunk_index + 1 >= Len(chunks) THEN << >>
    ELSE IterFrom(chunks, chunk_index + 1, chunks[chunk_index + 2])

RECURSIVE IterUntilZeroChunk(_, _, _)
IterUntilZeroChunk(chunks, chunk_index, current_chunk) ==
    IF current_chunk # ZeroChunk
    THEN LET bit_index == MinOf(current_chunk)
         IN << chunk_index * BITS_PER_CHUNK + bit_index >>
               \o IterUntilZeroChunk(chunks, chunk_index,
                                     current_chunk \ OneShl(bit_index))
    ELSE IF chunk_index + 1 >= Len(chunks) \/ chunk_index = 0 THEN << >>
    ELSE IterUntilZeroChunk(chunks, chunk_index + 1, chunks[chunk_index + 2])

IterStopsAtEmptyFirstChunk(chunks) ==
    IterUntilZeroChunk(chunks, 0, get_or_zero(chunks, 0))

\* BitSet::iter, collected
iter(chunks) == IterFrom(chunks, 0, get_or_zero(chunks, 0))

\* ------------------------------------------------------------------------
\* The BitSet machine: every operation, applied to either value
\* ------------------------------------------------------------------------
SearchIdle ==
    /\ calls = 0 /\ max_calls = 0 /\ max_size = 1
    /\ highest_score = 0 /\ highest = {} /\ counter = 0 /\ entries = 0
    /\ min_cover = << >> /\ min_amortized_cost = << >>
    /\ initial = TRUE /\ stack = << >> /\ result = << >>
    /\ early = FALSE /\ panicked = FALSE
    /\ last = [op |-> "new", C |-> {}, P |-> {}, F |-> {}]

BitSetInit == SearchIdle /\ BoundsIdle /\ set1 = new /\ set2 = new

IterInputs == UNION {[1..n -> Elements] : n \in 0..MaxIterLen}

Value(which) == IF which = 1 THEN set1 ELSE set2

Store(which, chunks) ==
    /\ IF which = 1 THEN set1' = chunks /\ set2' = set2
                    ELSE set2' = chunks /\ set1' = set1
    /\ UNCHANGED << search_vars, bound_vars >>

BsNew == \E t \in 1..2 : Store(t, new)

BsSingleton == \E t \in 1..2, e \in Elements : Store(t, singleton(e))

BsFromIter == \E t \in 1..2, it \in IterInputs : Store(t, bitset_from_iter(it))

BsInsert == \E t \in 1..2, e \in Elements : Store(t, insert(Value(t), e))

BsUnion == \E t, x, y \in 1..2 : Store(t, union(Value(x), Value(y)))

BsIntersection == \E t, x, y \in 1..2 : Store(t, intersection(Value(x), Value(y)))

BsDifference == \E t, x, y \in 1..2 : Store(t, difference(Value(x), Value(y)))

BsUnionAssign == \E t \in 1..2 : Store(t, union_assign(Value(t), Value(3 - t)))

BsIntersectionAssign ==
    \E t \in 1..2 : Store(t, intersection_assign(Value(t), Value(3 - t)))

BsDifferenceAssign ==
    \E t \in 1..2 : Store(t, difference_assign(Value(t), Value(3 - t)))

\* bitset_from_iter over the elements another BitSet's iterator yields
BsCollectIter ==
    \E t, x \in 1..2 : Store(t, bitset_from_iter(iter(Value(x))))

BitSetNext ==
    \/ BsNew \/ BsSingleton \/ BsFromIter \/ BsInsert
    \/ BsUnion \/ BsIntersection \/ BsDifference
    \/ BsUnionAssign \/ BsIntersectionAssign \/ BsDifferenceAssign
    \/ BsCollectIter

SpecBitSet == BitSetInit /\ [][BitSetNext]_vars

\* ------------------------------------------------------------------------
\* Properties of BitSet (checked under SpecBitSet)
\* ------------------------------------------------------------------------
\* the elements a chunks vector holds
Members(chunks) ==
    UNION {{(i - 1) * BITS_PER_CHUNK + b : b \in chunks[i]} : i \in 1..Len(chunks)}

NoTrailingZero(chunks) == chunks = << >> \/ chunks[Len(chunks)] # ZeroChunk

\* C9: after any sequence of operations the chunks vector does not end in a
\* zero chunk, and the two values have equal chunks vectors (derived Eq and
\* Hash) exactly when they hold the same elements.
C9_CanonicalChunks ==
    /\ NoTrailingZero(set1)
    /\ NoTrailingZero(set2)
    /\ (set1 = set2) <=> (Members(set1) = Members(set2))

\* C9 witness: both values hold the same elements, spread over two chunks,
\* and carry the same two-chunk vector.
C9_Witness ==
    /\ set1 = set2
    /\ Len(set1) = 2
    /\ Members(set1) = {BITS_PER_CHUNK - 1, BITS_PER_CHUNK}

\* comparison of the ascending element sequences, element by element
RECURSIVE LexCmp(_, _)
LexCmp(A, B) ==
    IF A = {} /\ B = {} THEN "Equal"
    ELSE IF A = {} THEN "Less"
    ELSE IF B = {} THEN "Greater"
    ELSE IF MinOf(A) < MinOf(B) THEN "Less"
    ELSE IF MinOf(A) > MinOf(B) THEN "Greater"
    ELSE LexCmp(A \ {MinOf(A)}, B \ {MinOf(B)})

\* comparison of the packed representations (bit i set iff i is an element)
\* as unsigned numbers: decided by the largest element held by only one set
PackedCmp(A, B) ==
    IF A = B THEN "Equal"
    ELSE IF MaxOf((A \ B) \cup (B \ A)) \in B THEN "Less" ELSE "Greater"

\* comparison decided inside the lowest chunk in which the sets differ, by
\* the largest element of that chunk held by only one set
LowestChunkCmp(A, B) ==
    IF A = B THEN "Equal"
    ELSE LET D == (A \ B) \cup (B \ A)
             c == MinOf(D) \div BITS_PER_CHUNK
             top == MaxOf({e \in D : e \div BITS_PER_CHUNK = c})
         IN IF top \in B THEN "Less" ELSE "Greater"

\* C10 (as claimed): cmp is the lexicographic order on the ascending element
\* sequences and coincides with the unsigned comparison of the packed
\* representation, also for sets that span several chunks.
C10_CmpLexicographicAndNumeric ==
    /\ cmp(set1, set2) = LexCmp(Members(set1), Members(set2))
    /\ cmp(set1, set2) = PackedCmp(Members(set1), Members(set2))

\* C10 (amended): cmp is decided in the lowest 64-element chunk in which the
\* two sets differ, in favour of the set holding the largest differing
\* element of that chunk; it is the unsigned comparison of the packed
\* representation when all elements of both sets are below 64.
C10_CmpLowestChunkFirst ==
    /\ cmp(set1, set2) = LowestChunkCmp(Members(set1), Members(set2))
    /\ (Len(set1) <= 1 /\ Len(set2) <= 1) =>
           cmp(set1, set2) = PackedCmp(Members(set1), Members(set2))

\* C10 witness: two sets that differ in chunk 0 and in chunk 1, ordered by
\* chunk 0 against the packed order.
C10_Witness ==
    /\ Members(set1) = {BITS_PER_CHUNK}
    /\ Members(set2) = {0}
    /\ cmp(set1, set2) = "Less"
    /\ PackedCmp(Members(set1), Members(set2)) = "Greater"

\* the BitSet built by inserting the elements of S
RECURSIVE BitSetOf(_)
BitSetOf(S) ==
    IF S = {} THEN new ELSE insert(BitSetOf(S \ {MaxOf(S)}), MaxOf(S))

Reverse(ordering) ==
    IF ordering = "Less" THEN "Greater"
    ELSE IF ordering = "Greater" THEN "Less" ELSE "Equal"

AtMost(ordering) == ordering \in {"Less", "Equal"}

\* C11: cmp is a total order consistent with equality: cmp(a, a) is Equal,
\* cmp(a, b) is Equal exactly when a == b, cmp(a, b) is the reverse of
\* cmp(b, a), and a <= b with b <= c gives a <= c (c any BitSet over the
\* elements of the model).
C11_CmpTotalOrder ==
    /\ cmp(set1, set1) = "Equal"
    /\ (cmp(set1, set2) = "Equal") <=> (set1 = set2)
    /\ cmp(set1, set2) = Reverse(cmp(set2, set1))
    /\ \A S \in SUBSET Elements :
          (AtMost(cmp(set1, set2)) /\ AtMost(cmp(set2, BitSetOf(S))))
              => AtMost(cmp(set1, BitSetOf(S)))

\* C11 witness: a strictly increasing chain of three sets with one, two and
\* three chunks, of which the first is a prefix of the second.
C11_Witness ==
    /\ Len(set1) = 1 /\ Len(set2) = 2
    /\ set1[1] = set2[1]
    /\ cmp(set1, set2) = "Less"
    /\ cmp(set2, BitSetOf({2 * BITS_PER_CHUNK})) = "Greater"
    /\ \E S \in SUBSET Elements :
          /\ Len(BitSetOf(S)) = 3
          /\ cmp(set2, BitSetOf(S)) = "Less"
          /\ cmp(set1, BitSetOf(S)) = "Less"

\* C12: union, intersection and difference return exactly the set-theoretic
\* result, also for operands with different numbers of chunks, and each
\* in-place variant leaves self equal to the result of the pure operation.
C12_SetOperationsExact ==
    \A a, b \in {set1, set2} :
        /\ Members(union(a, b)) = Members(a) \cup Members(b)
        /\ Members(intersection(a, b)) = Members(a) \cap Members(b)
        /\ Members(difference(a, b)) = Members(a) \ Members(b)
        /\ union_assign(a, b) = union(a, b)
        /\ intersection_assign(a, b) = intersection(a, b)
        /\ difference_assign(a, b) = difference(a, b)

\* C12 witness: a three-chunk set and a one-chunk set that share an element
\* and each hold an element the other lacks.
C12_Witness ==
    /\ Len(set1) = 3 /\ Len(set2) = 1
    /\ Members(set1) \cap Members(set2) # {}
    /\ Members(set2) \ Members(set1) # {}
    /\ Len(intersection_assign(set1, set2)) = 1
    /\ Len(difference_assign(set1, set2)) = 3
    /\ Len(union_assign(set2, set1)) = 3

StrictlyAscending(elements) ==
    \A i \in 1..(Len(elements) - 1) : elements[i] < elements[i + 1]

\* C13: iter yields each element of the set exactly once, in strictly
\* ascending order, and nothing else; collecting it gives the set back and
\* the number of yielded elements is len.
C13_IterRoundTrip ==
    \A a \in {set1, set2} :
        /\ StrictlyAscending(iter(a))
        /\ {iter(a)[i] : i \in 1..Len(iter(a))} = Members(a)
        /\ bitset_from_iter(iter(a)) = a
        /\ Len(iter(a)) = len(a)

\* C13 witness: a set whose first chunk is zero, with elements in the two
\* chunks above it.
C13_Witness ==
    /\ Len(set1) = 3
    /\ set1[1] = ZeroChunk
    /\ iter(set1) = << BITS_PER_CHUNK, 2 * BITS_PER_CHUNK - 1, 2 * BITS_PER_CHUNK >>

\* ========================================================================
\* Bound functions of src/src/bounds.rs over a BoundContext
\* ========================================================================
STACK_SIZE == 128

\* The context a first search call hands to the bound functions: nothing is
\* committed yet and the tables are those of the whole recipe set.
\* (min_amortized_cost is read by none of the three bounds and is left out.)
RootContext(candidates, k) ==
    [candidates |-> candidates,
     partial |-> {},
     partial_ingredients |-> {},
     max_size |-> k,
     min_cover |-> min_cover_table(candidates)]

TotalBound_compute(ctx) == Cardinality(ctx.candidates)

SingletonBound_compute(ctx) ==
    LET u == Cardinality({c \in ctx.candidates : ctx.min_cover[c] = 1})
        size == Cardinality(ctx.partial_ingredients)
        limited == IF ctx.max_size < size THEN u ELSE Min2(u, ctx.max_size - size)
    IN Cardinality(ctx.candidates) - u + limited

RECURSIVE DropAny(_, _)
\* the sets left after removing any n elements of S
DropAny(S, n) ==
    IF n <= 0 THEN {S} ELSE UNION {DropAny(S \ {x}, n - 1) : x \in S}

\* stack_increases holds the increases of the first STACK_SIZE candidates in
\* the iteration order of the hash set: of any STACK_SIZE of them
RecordedChoices(candidates) ==
    DropAny(candidates, Cardinality(candidates) - STACK_SIZE)

\* stack_increases[..increases_count] after sort_unstable_by(|a, b| b.cmp(a))
SortedStackIncreases(incr, recorded) ==
    DescendingFrom(incr, recorded, MaxOf({incr[c] : c \in recorded} \cup {0}))

ConcentrationBound_compute(ctx, recorded) ==
    LET excess == Cardinality((UNION ctx.candidates) \cup ctx.partial_ingredients)
                    - ctx.max_size
        incr   == [c \in recorded |-> Cardinality(c \ ctx.partial_ingredients)]
    IN GreedyRemove(SortedStackIncreases(incr, recorded), 1, excess,
                    Cardinality(ctx.candidates))

\* ------------------------------------------------------------------------
\* Inputs: every small recipe set, and recipe sets of STACK_SIZE + 1 recipes
\* (STACK_SIZE recipes of at most three out of nine ingredients and one more)
\* ------------------------------------------------------------------------
PadIngredients == 0..8
Padding ==
    {r \in SUBSET PadIngredients : Cardinality(r) \in 1..3} \ {{6, 7, 8}}
LargeExtras == {{6, 7, 8}, {9}, {9, 10}, {9, 10, 11, 12}}
LargePools == {Padding \cup {x} : x \in LargeExtras}

BoundContexts ==
    {RootContext(C0, k) :
        C0 \in {C \in SUBSET AllRecipes : Cardinality(C) <= MaxRecipes},
        k \in 1..MaxK}
    \cup {RootContext(C0, k) :
            C0 \in LargePools,
            k \in {Cardinality(PadIngredients) - 1, Cardinality(PadIngredients)}}

BoundsInit ==
    /\ SearchIdle
    /\ BitSetIdle
    /\ Cardinality(Padding) = STACK_SIZE
    /\ context \in BoundContexts
    /\ bound_out = << >>

Computed(name, value) ==
    /\ bound_out' = << [name |-> name, value |-> value] >>
    /\ UNCHANGED << context, search_vars, bitset_vars >>

ComputeTotal == Computed("TotalBound", TotalBound_compute(context))

ComputeSingleton == Computed("SingletonBound", SingletonBound_compute(context))

ComputeConcentration ==
    \E recorded \in RecordedChoices(context.candidates) :
        Computed("ConcentrationBound", ConcentrationBound_compute(context, recorded))

BoundsNext == ComputeTotal \/ ComputeSingleton \/ ComputeConcentration

SpecBounds == BoundsInit /\ [][BoundsNext]_vars

\* ------------------------------------------------------------------------
\* Bound soundness
\* ------------------------------------------------------------------------
\* the largest number of recipes of C that a completion of the frame
\* (C, P, F) can cover: the footprint I(P) extended by ingredients of C to at
\* most k ingredients, containing no recipe of F
TrueMax(C, P, F, k) ==
    LET feasible == {T \in SUBSET (UNION C) :
                        /\ Cardinality(T \cup Footprint(P)) <= k
                        /\ ~forbidden_cover(F, T \cup Footprint(P))}
        gains == {Cardinality({r \in C : r \subseteq T \cup Footprint(P)}) :
                      T \in feasible} \cup {0}
    IN MaxOf(gains)

\* C3 for the bounds of BranchBound (lib.rs): in every frame of the search
\* each of the three bounds is at least TrueMax, and a pruned frame could
\* not have improved on the incumbent.
BranchBoundBoundsSound ==
    /\ ~initial =>
         \A i \in 1..Len(stack) :
            LET f == stack[i]
                best == TrueMax(f.C, f.P, f.F, max_size)
            IN /\ total_bound(f.C, f.P, Footprint(f.P)) >= best
               /\ singleton_bound(f.C, Footprint(f.P), max_size, min_cover) >= best
               /\ concentration_bound(f.C, Footprint(f.P), max_size) >= best
    /\ last.op = "prune" =>
         Cardinality(last.P) + TrueMax(last.C, last.P, last.F, max_size)
            <= highest_score

\* C3: for every search frame and each of the three bounds (here those of
\* bounds.rs, on the frame of a first call), the value returned is at least
\* the number of additional recipes a completion of the frame can cover.
C3_BoundsSound ==
    bound_out # << >> =>
        bound_out[1].value >=
            TrueMax(context.candidates, context.partial, {}, context.max_size)

\* ------------------------------------------------------------------------
\* The concentration bound B3
\* ------------------------------------------------------------------------
RECURSIVE TopSumFrom(_, _, _, _)
\* the sum of the m largest values of |r \ I(P)| over r in C, counted level
\* by level: min(m, number of r with |r \ I(P)| >= t), summed over t >= level
TopSumFrom(C, IP, m, level) ==
    LET reaching == Cardinality({r \in C : Cardinality(r \ IP) >= level})
    IN IF reaching = 0 THEN 0
       ELSE Min2(m, reaching) + TopSumFrom(C, IP, m, level + 1)

B3(C, IP, k) ==
    LET excess == Cardinality((UNION C) \cup IP) - k
        enough == {m \in 0..Cardinality(C) : TopSumFrom(C, IP, m, 1) >= excess}
    IN IF excess <= 0 THEN Cardinality(C)
       ELSE Cardinality(C) - MinOf(enough \cup {Cardinality(C)})

\* C17: with any number of candidates, BranchBound::concentration_bound and
\* ConcentrationBound::compute both return the B3 value, |C| when the excess
\* |U(C) u I(P)| - k is not positive and otherwise |C| minus the smallest
\* number of largest increases |r \ I(P)| that sum to the excess; the two
\* implementations agree.
C17_ConcentrationIsB3 ==
    (bound_out # << >> /\ bound_out[1].name = "ConcentrationBound") =>
        /\ bound_out[1].value =
              B3(context.candidates, context.partial_ingredients, context.max_size)
        /\ bound_out[1].value =
              concentration_bound(context.candidates, context.partial_ingredients,
                                  context.max_size)

\* what remains of C17: BranchBound::concentration_bound returns the B3
\* value on the frame of every first call, with any number of candidates ...
BranchBoundConcentrationIsB3 ==
    concentration_bound(context.candidates, context.partial_ingredients,
                        context.max_size)
        = B3(context.candidates, context.partial_ingredients, context.max_size)

\* ... and on every frame of the search (to be checked under Spec)
BranchBoundConcentrationIsB3InSearch ==
    ~initial =>
        \A i \in 1..Len(stack) :
            concentration_bound(stack[i].C, Footprint(stack[i].P), max_size)
                = B3(stack[i].C, Footprint(stack[i].P), max_size)

\* ... and ConcentrationBound::compute does with at most STACK_SIZE candidates
ConcentrationIsB3UpToStackSize ==
    (/\ bound_out # << >>
     /\ bound_out[1].name = "ConcentrationBound"
     /\ Cardinality(context.candidates) <= STACK_SIZE) =>
        bound_out[1].value =
            B3(context.candidates, context.partial_ingredients, context.max_size)

====
